---------------------------- MODULE Spec2Model ----------------------------
(***************************************************************************)
(* A model of the OxM8 chess engine: the bitboard Board (board.rs), the    *)
(* FEN reader and printer (fen.rs), the per-piece move generators and      *)
(* generate_all_moves (moves.rs) and ChessGame (game.rs).                  *)
(*                                                                         *)
(* A bitboard (u64) is modelled as the set of the squares whose bit is     *)
(* set: `bb |= 1 << sq` is bb \cup {sq}, `bb &= !(1 << sq)` is bb \ {sq}.  *)
(* A Vec is a sequence, Option::None is the value None.                    *)
(***************************************************************************)
EXTENDS Integers, Sequences, FiniteSets, TLC

VARIABLES
    board,            \* ChessGame.board : Board
    current_player,   \* ChessGame.current_player : Color
    move_history,     \* ChessGame.move_history : Vec<String>
    last_result,      \* return value of the last ChessGame::make_move ("none" before)
    pos,              \* a stand-alone Board driven through Board::make_move
    prev,             \* the stand-alone Board before the last applied move
    last_move,        \* the last move applied to pos (NoMove before)
    plies,            \* number of moves applied to pos
    call              \* the last call of a function on pos, with what it returned

vars == <<board, current_player, move_history, last_result,
          pos, prev, last_move, plies, call>>

\* no function has been called on pos
NoCall == [op |-> "none"]

-----------------------------------------------------------------------------
(* Bounds of the model *)

MaxHistory == 2      \* longest ChessGame move_history explored
MaxPlies == 2        \* longest sequence of Board::make_move calls explored
MaxDepth == 3        \* deepest Eval::alpha_beta search explored

-----------------------------------------------------------------------------
(* piece.rs *)

Piece == {"Pawn", "Knight", "Bishop", "Rook", "Queen", "King"}
Color == {"White", "Black"}

None == -1           \* Option::None (squares are 0..63, so -1 is free)
NoPiece == "NoPiece" \* the `piece` payload of a move type that carries none
NoOccupant == <<"NoPiece", "NoColor">>   \* Option<(Piece, Color)>::None

Squares == 0 .. 63

opponent(color) == IF color = "White" THEN "Black" ELSE "White"

as_u8(x) == x % 256  \* `x as u8` of an i8 value

-----------------------------------------------------------------------------
(* board.rs *)

BBFields == {"white_pawns", "white_knights", "white_bishops", "white_rooks",
             "white_queens", "white_king",
             "black_pawns", "black_knights", "black_bishops", "black_rooks",
             "black_queens", "black_king"}

Board_new ==
    [white_pawns |-> {}, white_knights |-> {}, white_bishops |-> {},
     white_rooks |-> {}, white_queens |-> {}, white_king |-> {},
     black_pawns |-> {}, black_knights |-> {}, black_bishops |-> {},
     black_rooks |-> {}, black_queens |-> {}, black_king |-> {},
     to_move |-> TRUE, halfmove_clock |-> 0, fullmove_number |-> 1,
     en_passant |-> None, castling_rights |-> 15]

bb_field(piece, color) ==
    CASE piece = "Pawn"   /\ color = "White" -> "white_pawns"
      [] piece = "Knight" /\ color = "White" -> "white_knights"
      [] piece = "Bishop" /\ color = "White" -> "white_bishops"
      [] piece = "Rook"   /\ color = "White" -> "white_rooks"
      [] piece = "Queen"  /\ color = "White" -> "white_queens"
      [] piece = "King"   /\ color = "White" -> "white_king"
      [] piece = "Pawn"   /\ color = "Black" -> "black_pawns"
      [] piece = "Knight" /\ color = "Black" -> "black_knights"
      [] piece = "Bishop" /\ color = "Black" -> "black_bishops"
      [] piece = "Rook"   /\ color = "Black" -> "black_rooks"
      [] piece = "Queen"  /\ color = "Black" -> "black_queens"
      [] piece = "King"   /\ color = "Black" -> "black_king"

get_bb(b, piece, color) == b[bb_field(piece, color)]

set_piece(b, piece, color, square) ==
    [b EXCEPT ![bb_field(piece, color)] = @ \cup {square}]

remove_piece_noop(b, piece, color, square) == b

remove_piece(b, piece, color, square) ==
    [b EXCEPT ![bb_field(piece, color)] = @ \ {square}]

\* Option<(Piece, Color)>: <<piece, color>> or NoOccupant; the first board whose
\* bit is set wins, in the order of the twelve tests.
get_piece_at(b, square) ==
    IF square \in b.white_pawns THEN <<"Pawn", "White">>
    ELSE IF square \in b.white_knights THEN <<"Knight", "White">>
    ELSE IF square \in b.white_bishops THEN <<"Bishop", "White">>
    ELSE IF square \in b.white_rooks THEN <<"Rook", "White">>
    ELSE IF square \in b.white_queens THEN <<"Queen", "White">>
    ELSE IF square \in b.white_king THEN <<"King", "White">>
    ELSE IF square \in b.black_pawns THEN <<"Pawn", "Black">>
    ELSE IF square \in b.black_knights THEN <<"Knight", "Black">>
    ELSE IF square \in b.black_bishops THEN <<"Bishop", "Black">>
    ELSE IF square \in b.black_rooks THEN <<"Rook", "Black">>
    ELSE IF square \in b.black_queens THEN <<"Queen", "Black">>
    ELSE IF square \in b.black_king THEN <<"King", "Black">>
    ELSE NoOccupant

is_none(x) == x = NoOccupant

\* the squares of a bitboard in increasing order (trailing_zeros loop)
RECURSIVE squares_of(_)
squares_of(bb) ==
    IF bb = {} THEN <<>>
    ELSE LET lo == CHOOSE s \in bb : \A t \in bb : s <= t
         IN  <<lo>> \o squares_of(bb \ {lo})

get_piece_squares(b, color, piece) == squares_of(get_bb(b, piece, color))

-----------------------------------------------------------------------------
(* moves.rs : the move value and the per-piece generators *)

MoveKinds == {"Normal", "Capture", "EnPassant", "Castle", "Promotion",
              "Double", "PromotionCapture"}

MT(kind) == [kind |-> kind, piece |-> NoPiece]             \* a MoveType without payload
MTP(kind, piece) == [kind |-> kind, piece |-> piece]       \* Promotion / PromotionCapture

Moves_new(from, to, move_type) == [from |-> from, to |-> to, move_type |-> move_type]

NoMove == Moves_new(None, None, MT("NoMove"))

is_promotion(mv) == mv.move_type.kind \in {"Promotion", "PromotionCapture"}

is_capture(mv) == mv.move_type.kind \in {"Capture", "EnPassant", "PromotionCapture"}

\* promotion pieces with a king in place of the queen
promotion_pieces_with_king == <<"King", "Rook", "Bishop", "Knight">>

promotion_pieces == <<"Queen", "Rook", "Bishop", "Knight">>

\* add_promotions that pushes the queen promotion only
add_promotions_queen_only(moves, from, to, is_cap) ==
    Append(moves, Moves_new(from, to,
                            MTP(IF is_cap THEN "PromotionCapture" ELSE "Promotion",
                                "Queen")))

add_promotions(moves, from, to, is_cap) ==
    moves \o [i \in 1 .. 4 |->
                Moves_new(from, to,
                          MTP(IF is_cap THEN "PromotionCapture" ELSE "Promotion",
                              promotion_pieces[i]))]

\* (forward_dir, start_rank, promotion_rank, left_capture_dir, right_capture_dir)
pawn_dirs(color) ==
    IF color = "White" THEN <<8, 1, 6, 7, 9>> ELSE <<-8, 6, 1, -9, -7>>

\* a diagonal capture block without its test of the file
pawn_capture_any_file(b, moves, square, color, side_ok, dir) ==
    LET rank == square \div 8
        promotion_rank == pawn_dirs(color)[3]
        target == as_u8(square + dir)
        occ == get_piece_at(b, target % 64)
    IN  IF ~is_none(occ) /\ occ[2] # color
        THEN IF rank = promotion_rank
             THEN add_promotions(moves, square, target, TRUE)
             ELSE Append(moves, Moves_new(square, target, MT("Capture")))
        ELSE moves

\* one diagonal capture block of pawn_moves (left: file > 0, right: file < 7)
pawn_capture(b, moves, square, color, side_ok, dir) ==
    LET rank == square \div 8
        promotion_rank == pawn_dirs(color)[3]
        target == as_u8(square + dir)
        occ == get_piece_at(b, target % 64)    \* `1 << square` masks the shift in a release build
    IN  IF side_ok /\ ~is_none(occ) /\ occ[2] # color
        THEN IF rank = promotion_rank
             THEN add_promotions(moves, square, target, TRUE)
             ELSE Append(moves, Moves_new(square, target, MT("Capture")))
        ELSE moves

\* one en-passant block of pawn_moves; step is -1 (left) or +1 (right)
pawn_en_passant_unchecked(b, moves, square, color, side_ok, dir, step) ==
    LET target == as_u8(square + dir)
    IN  IF side_ok /\ target = b.en_passant
        THEN Append(moves, Moves_new(square, b.en_passant, MT("EnPassant")))
        ELSE moves

pawn_en_passant(b, moves, square, color, side_ok, dir, step) ==
    LET target == as_u8(square + dir)
        enemy_pawn_square == square + step
        enemy_color == opponent(color)
        occ == get_piece_at(b, enemy_pawn_square)
    IN  IF side_ok /\ target = b.en_passant
           /\ ~is_none(occ) /\ occ[1] = "Pawn" /\ occ[2] = enemy_color
        THEN Append(moves, Moves_new(square, b.en_passant, MT("EnPassant")))
        ELSE moves

\* the forward block of pawn_moves, with the double push emitted as Normal
pawn_forward_double_as_normal(b, square, color) ==
    LET d == pawn_dirs(color)
        rank == square \div 8
        one_forward == as_u8(square + d[1])
        two_forward == as_u8(square + d[1] * 2)
    IN  IF one_forward < 64 /\ is_none(get_piece_at(b, one_forward))
        THEN IF rank = d[3]
             THEN add_promotions(<<>>, square, one_forward, FALSE)
             ELSE <<Moves_new(square, one_forward, MT("Normal"))>>
                  \o (IF rank = d[2] /\ is_none(get_piece_at(b, two_forward % 64))
                      THEN <<Moves_new(square, two_forward, MT("Normal"))>>
                      ELSE <<>>)
        ELSE <<>>

pawn_forward(b, square, color) ==
    LET d == pawn_dirs(color)
        rank == square \div 8
        one_forward == as_u8(square + d[1])
        two_forward == as_u8(square + d[1] * 2)
    IN  IF one_forward < 64 /\ is_none(get_piece_at(b, one_forward))
        THEN IF rank = d[3]
             THEN add_promotions(<<>>, square, one_forward, FALSE)
             ELSE <<Moves_new(square, one_forward, MT("Normal"))>>
                  \o (IF rank = d[2] /\ is_none(get_piece_at(b, two_forward % 64))
                      THEN <<Moves_new(square, two_forward, MT("Double"))>>
                      ELSE <<>>)
        ELSE <<>>

pawn_moves(b, square, color) ==
    LET d == pawn_dirs(color)
        file == square % 8
        m1 == pawn_forward(b, square, color)
        m2 == pawn_capture(b, m1, square, color, file > 0, d[4])
        m3 == pawn_capture(b, m2, square, color, file < 7, d[5])
    IN  IF b.en_passant # None
        THEN LET m4 == pawn_en_passant(b, m3, square, color, file > 0, d[4], -1)
             IN  pawn_en_passant(b, m4, square, color, file < 7, d[5], 1)
        ELSE m3

\* the squares pawn_moves hands to Board::get_piece_at, as computed and
\* before any masking by the shift
pawn_probes(b, square, color) ==
    LET d == pawn_dirs(color)
        rank == square \div 8
        file == square % 8
        one_forward == as_u8(square + d[1])
        two_forward == as_u8(square + d[1] * 2)
        left == as_u8(square + d[4])
        right == as_u8(square + d[5])
    IN  (IF one_forward < 64 THEN {one_forward} ELSE {})
        \cup (IF one_forward < 64 /\ is_none(get_piece_at(b, one_forward))
                 /\ rank # d[3] /\ rank = d[2]
              THEN {two_forward} ELSE {})
        \cup (IF file > 0 THEN {left} ELSE {})
        \cup (IF file < 7 THEN {right} ELSE {})
        \cup (IF b.en_passant # None /\ file > 0 /\ left = b.en_passant
              THEN {square - 1} ELSE {})
        \cup (IF b.en_passant # None /\ file < 7 /\ right = b.en_passant
              THEN {square + 1} ELSE {})

knight_offsets == << <<2, 1>>, <<1, 2>>, <<-1, 2>>, <<-2, 1>>,
                     <<-2, -1>>, <<-1, -2>>, <<1, -2>>, <<2, -1>> >>

king_offsets == << <<1, 0>>, <<1, 1>>, <<0, 1>>, <<-1, 1>>,
                   <<-1, 0>>, <<-1, -1>>, <<0, -1>>, <<1, -1>> >>

\* the loop body shared by knight_moves and king_moves
RECURSIVE step_moves(_, _, _, _, _)
step_moves(b, square, color, offsets, i) ==
    IF i > Len(offsets) THEN <<>>
    ELSE LET new_rank == (square \div 8) + offsets[i][1]
             new_file == (square % 8) + offsets[i][2]
             to_square == new_rank * 8 + new_file
             occ == get_piece_at(b, to_square)
             here ==
               IF new_rank >= 0 /\ new_rank < 8 /\ new_file >= 0 /\ new_file < 8
               THEN IF ~is_none(occ)
                    THEN IF occ[2] # color
                         THEN <<Moves_new(square, to_square,
                                    MT(IF occ[2] = color THEN "Normal" ELSE "Capture"))>>
                         ELSE <<>>
                    ELSE <<Moves_new(square, to_square, MT("Normal"))>>
               ELSE <<>>
         IN  here \o step_moves(b, square, color, offsets, i + 1)

knight_moves(b, square, color) == step_moves(b, square, color, knight_offsets, 1)

king_moves(b, square, color) == step_moves(b, square, color, king_offsets, 1)

rook_directions == << <<1, 0>>, <<0, 1>>, <<-1, 0>>, <<0, -1>> >>

bishop_directions == << <<1, 1>>, <<1, -1>>, <<-1, 1>>, <<-1, -1>> >>

\* the inner `loop` without the `break` after a capture
RECURSIVE ray_walk_past_captures(_, _, _, _, _, _, _)
ray_walk_past_captures(b, square, color, rank, file, dr, df) ==
    LET new_rank == rank + dr
        new_file == file + df
        to_square == new_rank * 8 + new_file
        occ == get_piece_at(b, to_square)
    IN  IF new_rank < 0 \/ new_rank >= 8 \/ new_file < 0 \/ new_file >= 8
        THEN <<>>
        ELSE IF ~is_none(occ) /\ occ[2] = color
             THEN <<>>
             ELSE <<Moves_new(square, to_square,
                              MT(IF is_none(occ) THEN "Normal" ELSE "Capture"))>>
                  \o ray_walk_past_captures(b, square, color, new_rank, new_file, dr, df)

\* the inner `loop` of rook_moves / bishop_moves from (rank, file) in one direction
RECURSIVE ray_walk(_, _, _, _, _, _, _)
ray_walk(b, square, color, rank, file, dr, df) ==
    LET new_rank == rank + dr
        new_file == file + df
        to_square == new_rank * 8 + new_file
        occ == get_piece_at(b, to_square)
    IN  IF new_rank < 0 \/ new_rank >= 8 \/ new_file < 0 \/ new_file >= 8
        THEN <<>>
        ELSE IF ~is_none(occ)
             THEN IF occ[2] # color
                  THEN <<Moves_new(square, to_square, MT("Capture"))>>
                  ELSE <<>>
             ELSE <<Moves_new(square, to_square, MT("Normal"))>>
                  \o ray_walk(b, square, color, new_rank, new_file, dr, df)

RECURSIVE slide_moves(_, _, _, _, _)
slide_moves(b, square, color, directions, i) ==
    IF i > Len(directions) THEN <<>>
    ELSE ray_walk(b, square, color, square \div 8, square % 8,
                  directions[i][1], directions[i][2])
         \o slide_moves(b, square, color, directions, i + 1)

rook_moves(b, square, color) == slide_moves(b, square, color, rook_directions, 1)

bishop_moves(b, square, color) == slide_moves(b, square, color, bishop_directions, 1)

queen_moves(b, square, color) ==
    rook_moves(b, square, color) \o bishop_moves(b, square, color)

RECURSIVE concat_pawn_moves(_, _, _, _)
concat_pawn_moves(b, color, sqs, i) ==
    IF i > Len(sqs) THEN <<>>
    ELSE pawn_moves(b, sqs[i], color) \o concat_pawn_moves(b, color, sqs, i + 1)

\* generate_all_moves with a castle move added for a king on its home square,
\* whatever the rights, the occupancy and the attacks
generate_all_moves_with_castle(b, color) ==
    concat_pawn_moves(b, color, get_piece_squares(b, color, "Pawn"), 1)
    \o (IF color = "White" /\ 4 \in b.white_king
        THEN <<Moves_new(4, 6, MT("Castle")), Moves_new(4, 2, MT("Castle"))>>
        ELSE IF color = "Black" /\ 60 \in b.black_king
        THEN <<Moves_new(60, 62, MT("Castle")), Moves_new(60, 58, MT("Castle"))>>
        ELSE <<>>)

\* Only the pawns are walked: the other generators are never called
\* ("TODO: Add moves for other pieces").
generate_all_moves(b, color) ==
    concat_pawn_moves(b, color, get_piece_squares(b, color, "Pawn"), 1)

Range(s) == {s[i] : i \in 1 .. Len(s)}

-----------------------------------------------------------------------------
(* Bit arithmetic on castling_rights (u8, four bits used) *)

RECURSIVE bit_and(_, _)
bit_and(x, y) ==
    IF x = 0 \/ y = 0 THEN 0
    ELSE (x % 2) * (y % 2) + 2 * bit_and(x \div 2, y \div 2)

bit_or(x, y) == x + y - bit_and(x, y)

bit_clear(x, mask) == x - bit_and(x, mask)

-----------------------------------------------------------------------------
(* util.rs and fen.rs.  A string is a sequence of one-character strings. *)

Files == <<"a", "b", "c", "d", "e", "f", "g", "h">>
Digits == <<"0", "1", "2", "3", "4", "5", "6", "7", "8", "9">>

is_digit(c) == \E i \in 1 .. 10 : Digits[i] = c
digit_value(c) == (CHOOSE i \in 1 .. 10 : Digits[i] = c) - 1
file_index(c) == (CHOOSE i \in 1 .. 8 : Files[i] = c) - 1

\* str::parse::<u8> of a digit string: the value, or None when it is no u8
RECURSIVE parse_number(_, _, _)
parse_number(s, i, acc) ==
    IF i > Len(s) THEN acc
    ELSE IF ~is_digit(s[i]) THEN None
    ELSE parse_number(s, i + 1, acc * 10 + digit_value(s[i]))

parse_u8(s) ==
    LET v == IF Len(s) = 0 THEN None ELSE parse_number(s, 1, 0)
    IN  IF v = None \/ v > 255 THEN None ELSE v

UpperCase == <<"A", "B", "C", "D", "E", "F", "G", "H", "I", "J", "K", "L", "M",
               "N", "O", "P", "Q", "R", "S", "T", "U", "V", "W", "X", "Y", "Z">>
LowerCase == <<"a", "b", "c", "d", "e", "f", "g", "h", "i", "j", "k", "l", "m",
               "n", "o", "p", "q", "r", "s", "t", "u", "v", "w", "x", "y", "z">>

Panic == -2          \* the call does not return: the thread panics

\* `c as u8` for the characters the model types
byte_of(c) ==
    IF is_digit(c) THEN 48 + digit_value(c)
    ELSE IF \E k \in 1 .. 26 : LowerCase[k] = c
    THEN 96 + (CHOOSE k \in 1 .. 26 : LowerCase[k] = c)
    ELSE IF \E k \in 1 .. 26 : UpperCase[k] = c
    THEN 64 + (CHOOSE k \in 1 .. 26 : UpperCase[k] = c)
    ELSE CASE c = " " -> 32 [] c = "-" -> 45 [] c = "/" -> 47 [] c = "=" -> 61

\* pos_to_u8 as built with (debug) or without (release) overflow checks:
\* split_at(1) panics on the empty string in both; u8 arithmetic that
\* overflows panics in the first and wraps in the second
pos_to_u8_built(build, p) ==
    IF Len(p) < 1 THEN Panic
    ELSE LET rank == parse_u8(SubSeq(p, 2, Len(p)))
             file == byte_of(p[1]) - 97
         IN  IF rank = None THEN None
             ELSE IF build = "debug"
                     /\ (rank = 0 \/ (rank - 1) * 8 > 255 \/ file < 0
                         \/ (rank - 1) * 8 + file > 255)
             THEN Panic
             ELSE as_u8((rank - 1) * 8 + file)

pos_to_u8(p) == pos_to_u8_built("release", p)

u8_to_pos(square) == <<Files[(square % 8) + 1], Digits[(square \div 8) + 2]>>

FEN_K == 8     \* 'K' => castling_rights |= 0b1000
FEN_Q == 4     \* 'Q' => castling_rights |= 0b0100
FEN_k == 2     \* 'k' => castling_rights |= 0b0010
FEN_q == 1     \* 'q' => castling_rights |= 0b0001

piece_of_char(c) ==
    CASE c = "p" -> <<"Pawn", "Black">>   [] c = "n" -> <<"Knight", "Black">>
      [] c = "b" -> <<"Bishop", "Black">> [] c = "r" -> <<"Rook", "Black">>
      [] c = "q" -> <<"Queen", "Black">>  [] c = "k" -> <<"King", "Black">>
      [] c = "P" -> <<"Pawn", "White">>   [] c = "N" -> <<"Knight", "White">>
      [] c = "B" -> <<"Bishop", "White">> [] c = "R" -> <<"Rook", "White">>
      [] c = "Q" -> <<"Queen", "White">>  [] c = "K" -> <<"King", "White">>
      [] OTHER -> NoOccupant

\* str::split(sep)
RECURSIVE split(_, _, _, _)
split(s, sep, i, cur) ==
    IF i > Len(s) THEN <<cur>>
    ELSE IF s[i] = sep THEN <<cur>> \o split(s, sep, i + 1, <<>>)
    ELSE split(s, sep, i + 1, Append(cur, s[i]))

reverse(s) == [i \in 1 .. Len(s) |-> s[Len(s) + 1 - i]]

\* the inner loop of parse_fen over the characters of one row
RECURSIVE parse_row(_, _, _, _, _)
parse_row(b, row, i, rank, file) ==
    IF i > Len(row) THEN b
    ELSE LET c == row[i]
             square == as_u8(rank * 8 + file)
             pc == piece_of_char(c)
         IN  IF is_digit(c) /\ digit_value(c) >= 1 /\ digit_value(c) <= 8
             THEN parse_row(b, row, i + 1, rank, file + digit_value(c) - 1 + 1)
             ELSE IF ~is_none(pc)
             THEN parse_row(set_piece(b, pc[1], pc[2], square), row, i + 1, rank, file + 1)
             ELSE parse_row(b, row, i + 1, rank, file + 1)

RECURSIVE parse_rows(_, _, _)
parse_rows(b, rows, r) ==
    IF r > Len(rows) THEN b
    ELSE parse_rows(parse_row(b, rows[r], 1, r - 1, 0), rows, r + 1)

RECURSIVE parse_castling(_, _, _)
parse_castling(s, i, acc) ==
    IF i > Len(s) THEN acc
    ELSE parse_castling(s, i + 1,
           CASE s[i] = "K" -> bit_or(acc, FEN_K)
             [] s[i] = "Q" -> bit_or(acc, FEN_Q)
             [] s[i] = "k" -> bit_or(acc, FEN_k)
             [] s[i] = "q" -> bit_or(acc, FEN_q)
             [] OTHER -> acc)

\* A FEN is given by its six space-separated parts.  The result is
\* [ok |-> TRUE, board |-> ..] for Ok(board) and [ok |-> FALSE, ..] for Err.
parse_fen(fen) ==
    LET b0 == Board_new
        b1 == parse_rows(b0, reverse(split(fen.position, "/", 1, <<>>)), 1)
        hm == parse_number(fen.halfmove_clock, 1, 0)
        fm == parse_number(fen.fullmove_number, 1, 0)
        b2 == [b1 EXCEPT
                 !.to_move = (fen.to_move = <<"w">>),
                 !.castling_rights = parse_castling(fen.castling_rights, 1, 0),
                 !.en_passant = IF fen.en_passant = <<"-">> THEN None
                                ELSE pos_to_u8(fen.en_passant),
                 !.halfmove_clock = hm,
                 !.fullmove_number = fm]
    IN  IF fen.to_move \notin {<<"w">>, <<"b">>} \/ hm = None \/ fm = None
           \/ Len(fen.halfmove_clock) = 0 \/ Len(fen.fullmove_number) = 0
        THEN [ok |-> FALSE, board |-> b0]
        ELSE [ok |-> TRUE, board |-> b2]

Board_from_fen(fen) == parse_fen(fen).board     \* .expect("Invalid FEN string")

\* the castling field written by to_fen
to_fen_castling(b) ==
    (IF bit_and(b.castling_rights, FEN_K) # 0 THEN <<"K">> ELSE <<>>)
    \o (IF bit_and(b.castling_rights, FEN_Q) # 0 THEN <<"Q">> ELSE <<>>)
    \o (IF bit_and(b.castling_rights, FEN_k) # 0 THEN <<"k">> ELSE <<>>)
    \o (IF bit_and(b.castling_rights, FEN_q) # 0 THEN <<"q">> ELSE <<>>)
    \o (IF b.castling_rights = 0 THEN <<"-">> ELSE <<>>)

-----------------------------------------------------------------------------
(* The attack oracle, the move applier and the legality filter.  Their     *)
(* callers and tests are in game.rs, eval.rs and tests.rs; their bodies    *)
(* follow sections 4.1, 4.3 and 4.4 of the specification.                  *)

\* The bits Board::make_move clears, as test_make_move_castling
\* (castling_rights & 0b0011 is White's) and test_castling_rights_update
\* (0b1100 is what a White king move leaves) fix them.
WHITE_KINGSIDE == 1
WHITE_QUEENSIDE == 2
BLACK_KINGSIDE == 4
BLACK_QUEENSIDE == 8

rights_of(color) ==
    IF color = "White" THEN WHITE_KINGSIDE + WHITE_QUEENSIDE
    ELSE BLACK_KINGSIDE + BLACK_QUEENSIDE

\* the flag tied to a rook's original square, 0 for any other square
rook_right(color, square) ==
    CASE color = "White" /\ square = 7  -> WHITE_KINGSIDE
      [] color = "White" /\ square = 0  -> WHITE_QUEENSIDE
      [] color = "Black" /\ square = 63 -> BLACK_KINGSIDE
      [] color = "Black" /\ square = 56 -> BLACK_QUEENSIDE
      [] OTHER -> 0

\* the piece on (rank, file), None off the board
piece_on(b, rank, file) ==
    IF rank >= 0 /\ rank < 8 /\ file >= 0 /\ file < 8
    THEN get_piece_at(b, rank * 8 + file)
    ELSE NoOccupant

\* first_occupied that lets a ray pass through pawns
RECURSIVE first_occupied_past_pawns(_, _, _, _, _)
first_occupied_past_pawns(b, rank, file, dr, df) ==
    LET r == rank + dr
        f == file + df
    IN  IF r < 0 \/ r >= 8 \/ f < 0 \/ f >= 8 THEN NoOccupant
        ELSE IF get_piece_at(b, r * 8 + f)[1] \notin {"NoPiece", "Pawn"}
        THEN get_piece_at(b, r * 8 + f)
        ELSE first_occupied_past_pawns(b, r, f, dr, df)

\* the first occupied square met from (rank, file) in direction (dr, df)
RECURSIVE first_occupied(_, _, _, _, _)
first_occupied(b, rank, file, dr, df) ==
    LET r == rank + dr
        f == file + df
    IN  IF r < 0 \/ r >= 8 \/ f < 0 \/ f >= 8 THEN NoOccupant
        ELSE IF ~is_none(get_piece_at(b, r * 8 + f)) THEN get_piece_at(b, r * 8 + f)
        ELSE first_occupied(b, r, f, dr, df)

is_square_attacked(b, square, by_color) ==
    LET rank == square \div 8
        file == square % 8
        behind == IF by_color = "White" THEN -1 ELSE 1   \* where an attacking pawn stands
    IN  \/ piece_on(b, rank + behind, file - 1) = <<"Pawn", by_color>>
        \/ piece_on(b, rank + behind, file + 1) = <<"Pawn", by_color>>
        \/ \E i \in 1 .. 8 :
             piece_on(b, rank + knight_offsets[i][1], file + knight_offsets[i][2])
               = <<"Knight", by_color>>
        \/ \E i \in 1 .. 8 :
             piece_on(b, rank + king_offsets[i][1], file + king_offsets[i][2])
               = <<"King", by_color>>
        \/ \E i \in 1 .. 4 :
             first_occupied(b, rank, file, rook_directions[i][1], rook_directions[i][2])
               \in {<<"Rook", by_color>>, <<"Queen", by_color>>}
        \/ \E i \in 1 .. 4 :
             first_occupied(b, rank, file, bishop_directions[i][1], bishop_directions[i][2])
               \in {<<"Bishop", by_color>>, <<"Queen", by_color>>}

\* step 5 with the flags or-ed in instead of cleared
castling_rights_after_or(rights, piece, color, from, victim, to) ==
    bit_or(rights, IF piece = "King" THEN rights_of(color) ELSE 0)

\* step 5 of Board::make_move: the rights left once `piece` of `color` has
\* moved from `from` and `victim` (NoOccupant when nothing is taken) has been
\* taken on `to`
castling_rights_after(rights, piece, color, from, victim, to) ==
    LET moved == IF piece = "King" THEN rights_of(color)
                 ELSE IF piece = "Rook" THEN rook_right(color, from)
                 ELSE 0
        taken == IF victim[1] = "King" THEN rights_of(victim[2])
                 ELSE IF victim[1] = "Rook" THEN rook_right(victim[2], to)
                 ELSE 0
    IN  bit_clear(bit_clear(rights, moved), taken)

\* Board::make_move(&mut self, mv): the six steps of section 4.4, in order
make_move(b, mv) ==
    LET occ == get_piece_at(b, mv.from)
        kind == mv.move_type.kind
        flipped == [b EXCEPT !.en_passant = None, !.to_move = ~b.to_move]
    IN  IF is_none(occ) THEN flipped
        ELSE
        LET piece == occ[1]
            color == occ[2]
            \* 1. en-passant target
            b1 == [b EXCEPT !.en_passant =
                      IF kind = "Double" THEN (mv.from + mv.to) \div 2 ELSE None]
            \* 2. removals
            b2 == remove_piece(b1, piece, color, mv.from)
            victim == get_piece_at(b2, mv.to)
            b3 == IF kind = "EnPassant"
                  THEN remove_piece(b2, "Pawn", opponent(color),
                                    (mv.from \div 8) * 8 + (mv.to % 8))
                  ELSE IF kind \in {"Capture", "PromotionCapture"}
                          /\ ~is_none(victim) /\ victim[2] = opponent(color)
                  THEN remove_piece(b2, victim[1], victim[2], mv.to)
                  ELSE b2
            \* 3. placement
            b4 == set_piece(b3, IF is_promotion(mv) THEN mv.move_type.piece ELSE piece,
                            color, mv.to)
            \* 4. the rook of a castle
            rank0 == (mv.from \div 8) * 8
            b5 == IF kind = "Castle"
                  THEN IF mv.to > mv.from
                       THEN set_piece(remove_piece(b4, "Rook", color, rank0 + 7),
                                      "Rook", color, mv.to - 1)
                       ELSE set_piece(remove_piece(b4, "Rook", color, rank0),
                                      "Rook", color, mv.to + 1)
                  ELSE b4
            \* 5. castling rights
            taken == IF kind \in {"Capture", "PromotionCapture"}
                        /\ victim[2] = opponent(color)
                     THEN victim ELSE NoOccupant
            b6 == [b5 EXCEPT !.castling_rights =
                      castling_rights_after(@, piece, color, mv.from, taken, mv.to)]
            \* 6. clocks and side to move
        IN  [b6 EXCEPT
               !.halfmove_clock = IF piece = "Pawn" \/ is_capture(mv) THEN 0 ELSE @ + 1,
               !.fullmove_number = @ + (IF color = "Black" THEN 1 ELSE 0),
               !.to_move = ~b.to_move]

\* the king's square, None when the colour has no king
king_square_of(b, color) ==
    LET ks == get_piece_squares(b, color, "King")
    IN  IF Len(ks) = 0 THEN None ELSE ks[1]

is_in_check(b, color) ==
    LET k == king_square_of(b, color)
    IN  k # None /\ is_square_attacked(b, k, opponent(color))

is_legal_move(b, mv, color) ==
    LET copy == make_move(b, mv)
    IN  ~is_in_check(copy, color)

RECURSIVE filter_legal(_, _, _, _)
filter_legal(b, color, moves, i) ==
    IF i > Len(moves) THEN <<>>
    ELSE (IF is_legal_move(b, moves[i], color) THEN <<moves[i]>> ELSE <<>>)
         \o filter_legal(b, color, moves, i + 1)

\* generate_legal_moves that tests the check on the position before the move
generate_legal_moves_unmoved(b, color) ==
    IF is_in_check(b, color) THEN <<>> ELSE generate_all_moves(b, color)

generate_legal_moves(b, color) ==
    filter_legal(b, color, generate_all_moves(b, color), 1)

\* is_checkmate without the check test
is_checkmate_no_check(b, color) == Len(generate_legal_moves(b, color)) = 0

is_checkmate(b, color) ==
    is_in_check(b, color) /\ Len(generate_legal_moves(b, color)) = 0

\* is_stalemate without the test for legal moves
is_stalemate_no_moves_test(b, color) == ~is_in_check(b, color)

is_stalemate(b, color) ==
    ~is_in_check(b, color) /\ Len(generate_legal_moves(b, color)) = 0

-----------------------------------------------------------------------------
(* moves.rs : Moves::to_algebraic, and game.rs : ChessGame *)

promotion_suffix(mv) ==
    IF is_promotion(mv)
    THEN CASE mv.move_type.piece = "Queen"  -> <<"=", "Q">>
           [] mv.move_type.piece = "Rook"   -> <<"=", "R">>
           [] mv.move_type.piece = "Bishop" -> <<"=", "B">>
           [] mv.move_type.piece = "Knight" -> <<"=", "N">>
           [] OTHER -> <<>>
    ELSE <<>>

to_algebraic(mv) == u8_to_pos(mv.from) \o u8_to_pos(mv.to) \o promotion_suffix(mv)

ChessGame_from_fen(fen) ==
    [board |-> Board_from_fen(fen), current_player |-> "White", move_history |-> <<>>]

\* the body of ChessGame::make_move with the legality test left out
checked_make_move_unverified(g, mv, legal_moves) ==
    [game |-> [board |-> make_move(g.board, mv),
               current_player |-> opponent(g.current_player),
               move_history |-> Append(g.move_history, to_algebraic(mv))],
     result |-> TRUE]

\* the body of ChessGame::make_move once legal_moves is computed: the game
\* after the call and the value returned
checked_make_move(g, mv, legal_moves) ==
    IF mv \notin Range(legal_moves)
    THEN [game |-> g, result |-> FALSE]
    ELSE [game |-> [board |-> make_move(g.board, mv),
                    current_player |-> opponent(g.current_player),
                    move_history |-> Append(g.move_history, to_algebraic(mv))],
          result |-> TRUE]

\* ChessGame::make_move(&mut self, mv) -> bool
ChessGame_make_move(g, mv) ==
    checked_make_move(g, mv, generate_legal_moves(g.board, g.current_player))

\* str::to_lowercase
to_lowercase(s) ==
    [i \in 1 .. Len(s) |->
       IF \E k \in 1 .. 26 : UpperCase[k] = s[i]
       THEN LowerCase[CHOOSE k \in 1 .. 26 : UpperCase[k] = s[i]]
       ELSE s[i]]

\* str::trim
RECURSIVE trim(_)
trim(s) ==
    IF s # <<>> /\ s[1] = " " THEN trim(Tail(s))
    ELSE IF s # <<>> /\ s[Len(s)] = " " THEN trim(SubSeq(s, 1, Len(s) - 1))
    ELSE s

\* str::split_whitespace: the non-empty pieces between spaces
split_whitespace(s) == SelectSeq(split(s, " ", 1, <<>>), LAMBDA part : part # <<>>)

NoParse == <<>>      \* Option<(u8, u8, Option<Piece>)>::None

\* util.rs parse_algebraic: <<from, to, promotion>> or NoParse; a promotion
\* of None is NoPiece
parse_algebraic(algebraic) ==
    IF Len(algebraic) < 4 THEN NoParse
    ELSE LET from_square == pos_to_u8(SubSeq(algebraic, 1, 2))
             to_square == pos_to_u8(SubSeq(algebraic, 3, 4))
             promotion ==
               IF Len(algebraic) >= 6 /\ algebraic[5] = "="
               THEN CASE algebraic[6] = "Q" -> "Queen"
                      [] algebraic[6] = "R" -> "Rook"
                      [] algebraic[6] = "B" -> "Bishop"
                      [] algebraic[6] = "N" -> "Knight"
                      [] OTHER -> NoPiece
               ELSE NoPiece
         IN  IF from_square = None THEN NoParse
             ELSE IF to_square = None THEN NoParse
             ELSE <<from_square, to_square, promotion>>

\* the first move of legal_moves the `for` loop of parse_move_input returns
\* for (from, to, promotion), or NoMove
first_matching(legal_moves, from, to, promotion) ==
    LET hits == {i \in 1 .. Len(legal_moves) :
                   /\ legal_moves[i].from = from /\ legal_moves[i].to = to
                   /\ IF promotion # NoPiece
                      THEN is_promotion(legal_moves[i])
                           /\ legal_moves[i].move_type.piece = promotion
                      ELSE ~is_promotion(legal_moves[i])}
    IN  IF hits = {} THEN NoMove
        ELSE legal_moves[CHOOSE i \in hits : \A j \in hits : i <= j]

\* ChessGame::parse_move_input: Option<Moves>, None being NoMove
parse_move_input(g, text) ==
    LET input == trim(text)
        lower == to_lowercase(input)
        white == g.current_player = "White"
        legal_moves == generate_legal_moves(g.board, g.current_player)
        alg == parse_algebraic(input)
        by_alg == IF alg = NoParse THEN NoMove
                  ELSE first_matching(legal_moves, alg[1], alg[2], alg[3])
        parts == split_whitespace(input)
        from == pos_to_u8(parts[1])
        to == pos_to_u8(parts[2])
    IN  IF lower \in {<<"o", "-", "o">>, <<"0", "-", "0">>}
        THEN Moves_new(IF white THEN 4 ELSE 60, IF white THEN 6 ELSE 62, MT("Castle"))
        ELSE IF lower \in {<<"o", "-", "o", "-", "o">>, <<"0", "-", "0", "-", "0">>}
        THEN Moves_new(IF white THEN 4 ELSE 60, IF white THEN 2 ELSE 58, MT("Castle"))
        ELSE IF by_alg # NoMove THEN by_alg
        ELSE IF Len(parts) = 2
        THEN IF from # None /\ to # None
             THEN first_matching(legal_moves, from, to, NoPiece)
             ELSE NoMove
        ELSE NoMove

Commands == {<<"q", "u", "i", "t">>, <<"e", "x", "i", "t">>, <<"q">>,
             <<"h", "e", "l", "p">>, <<"h">>, <<"m", "o", "v", "e", "s">>, <<"m">>,
             <<"h", "i", "s", "t", "o", "r", "y">>, <<"f", "e", "n">>,
             <<"s", "t", "a", "t", "u", "s">>, <<>>}

\* one round of the loop of ChessGame::run on the line `line`: the game
\* afterwards and whether a move was played
run_round(g, line) ==
    LET input == to_lowercase(trim(line))
        mv == parse_move_input(g, input)
    IN  IF input \in Commands \/ mv = NoMove
        THEN [game |-> g, played |-> FALSE]
        ELSE LET r == ChessGame_make_move(g, mv)
             IN  [game |-> r.game, played |-> r.result]

-----------------------------------------------------------------------------
(* The positions the model starts from *)

Fen(position, to_move, castling, en_passant) ==
    [position |-> position, to_move |-> <<to_move>>, castling_rights |-> castling,
     en_passant |-> en_passant, halfmove_clock |-> <<"0">>, fullmove_number |-> <<"1">>]

KQkq == <<"K", "Q", "k", "q">>
Dash == <<"-">>

\* rnbqkbnr/pppppppp/8/8/8/8/PPPPPPPP/RNBQKBNR w KQkq - 0 1
START_FEN ==
    Fen(<<"r","n","b","q","k","b","n","r","/","p","p","p","p","p","p","p","p","/",
          "8","/","8","/","8","/","8","/",
          "P","P","P","P","P","P","P","P","/","R","N","B","Q","K","B","N","R">>,
        "w", KQkq, Dash)

\* r3k2r/p6p/8/8/8/8/P6P/R3K2R w KQkq - 0 1 : the position of the castling
\* tests (tests.rs) with the rook pawns on the board
CastleFen ==
    Fen(<<"r","3","k","2","r","/","p","6","p","/","8","/","8","/","8","/","8","/",
          "P","6","P","/","R","3","K","2","R">>, "w", KQkq, Dash)

\* 8/8/8/pP6/8/8/8/8 w - a6 0 1   (tests.rs, test_en_passant_capture)
EnPassantFen ==
    Fen(<<"8","/","8","/","8","/","p","P","6","/","8","/","8","/","8","/","8">>,
        "w", Dash, <<"a", "6">>)

\* 4k3/8/8/8/1p6/8/PP6/4K3 w - - 0 1 : a double push next to a black pawn
DoublePushFen ==
    Fen(<<"4","k","3","/","8","/","8","/","8","/","1","p","6","/","8","/",
          "P","P","6","/","4","K","3">>, "w", Dash, Dash)

\* 8/8/n7/pP6/8/8/8/8 w - a6 0 1 : the en-passant fixture with a knight
\* standing on the en-passant target (parse_fen accepts it)
EnPassantBlockedFen ==
    Fen(<<"8","/","8","/","n","7","/","p","P","6","/","8","/","8","/","8","/","8">>,
        "w", Dash, <<"a", "6">>)

\* 2r1k3/1P6/8/8/8/8/p7/4K3 w - - 0 1 : promotions and a promotion capture
PromotionFen ==
    Fen(<<"2","r","1","k","3","/","1","P","6","/","8","/","8","/","8","/","8","/",
          "p","7","/","4","K","3">>, "w", Dash, Dash)

\* 4k3/8/8/8/4r3/3p4/4P3/4K3 w - - 0 1 : the e2 pawn is pinned by the rook
PinFen ==
    Fen(<<"4","k","3","/","8","/","8","/","8","/","4","r","3","/","3","p","4","/",
          "4","P","3","/","4","K","3">>, "w", Dash, Dash)

\* r3k3/p7/8/8/8/8/Pp6/R3K3 b Qq - 0 1 : a pawn that can take the a1 rook
RookCaptureFen ==
    Fen(<<"r","3","k","3","/","p","7","/","8","/","8","/","8","/","8","/",
          "P","p","6","/","R","3","K","3">>, "b", <<"Q", "q">>, Dash)

\* 4k3/8/8/8/4q3/8/8/4K3 w - - 0 1   (tests.rs, test_legal_moves_in_check)
CheckFen ==
    Fen(<<"4","k","3","/","8","/","8","/","8","/","4","q","3","/","8","/","8","/",
          "4","K","3">>, "w", Dash, Dash)

GameFens == {START_FEN, CastleFen, DoublePushFen, PromotionFen, PinFen,
             RookCaptureFen, CheckFen}

BoardFens == {CastleFen, EnPassantFen, EnPassantBlockedFen, DoublePushFen,
              PromotionFen, PinFen, RookCaptureFen, CheckFen}

-----------------------------------------------------------------------------
(* Spec: a ChessGame driven through ChessGame::make_move *)

game == [board |-> board, current_player |-> current_player,
         move_history |-> move_history]

\* the moves a caller may hand to ChessGame::make_move: the pawn moves of
\* either colour, the king moves of the player and the castle moves that
\* parse_move_input builds for "O-O" and "O-O-O"
Attempts(g) ==
    Range(generate_all_moves(g.board, "White"))
    \cup Range(generate_all_moves(g.board, "Black"))
    \cup (IF king_square_of(g.board, g.current_player) = None THEN {}
          ELSE Range(king_moves(g.board, king_square_of(g.board, g.current_player),
                                g.current_player)))
    \cup (IF g.current_player = "White"
          THEN {Moves_new(4, 6, MT("Castle")), Moves_new(4, 2, MT("Castle"))}
          ELSE {Moves_new(60, 62, MT("Castle")), Moves_new(60, 58, MT("Castle"))})

BoardIdle == pos = Board_new /\ prev = Board_new /\ last_move = NoMove /\ plies = 0

\* ChessGame::new() is from_fen(START_FEN)
Init ==
    /\ \E fen \in GameFens :
         LET g == ChessGame_from_fen(fen)
         IN  /\ board = g.board
             /\ current_player = g.current_player
             /\ move_history = g.move_history
    /\ last_result = "none"
    /\ BoardIdle
    /\ call = NoCall

\* self.make_move(mv) for a move the caller chose: the call returns true or false
MakeMove ==
    /\ Len(move_history) < MaxHistory
    /\ \E legal_moves \in {generate_legal_moves(board, current_player)} :
       \E mv \in Attempts(game) :
         LET r == checked_make_move(game, mv, legal_moves)
         IN  /\ board' = r.game.board
             /\ current_player' = r.game.current_player
             /\ move_history' = r.game.move_history
             /\ last_result' = IF r.result THEN "true" ELSE "false"
             /\ UNCHANGED <<pos, prev, last_move, plies, call>>

Next == MakeMove

Spec == Init /\ [][Next]_vars

-----------------------------------------------------------------------------
(* SpecRun: a ChessGame driven through the lines typed into ChessGame::run *)

\* "e2 e4" for a move from e2 to e4
spaced(mv) == u8_to_pos(mv.from) \o <<" ">> \o u8_to_pos(mv.to)

\* the lines a player types: every legal move in the two documented
\* coordinate forms, the two castling words and a command
Lines(g) ==
    {to_algebraic(mv) : mv \in Range(generate_legal_moves(g.board, g.current_player))}
    \cup {spaced(mv) : mv \in Range(generate_legal_moves(g.board, g.current_player))}
    \cup {<<"O", "-", "O">>, <<"O", "-", "O", "-", "O">>, <<"h", "e", "l", "p">>}

\* a line is read and handled
RunRound ==
    /\ Len(move_history) < MaxHistory
    /\ \E line \in Lines(game) :
         \E r \in {run_round(game, line)} :
           /\ board' = r.game.board
           /\ current_player' = r.game.current_player
           /\ move_history' = r.game.move_history
           /\ last_result' = IF r.played THEN "true" ELSE "false"
           /\ call' = [op |-> "run", line |-> line]
    /\ UNCHANGED <<pos, prev, last_move, plies>>

NextRun == RunRound

SpecRun == Init /\ [][NextRun]_vars

-----------------------------------------------------------------------------
(* SpecBoard: a Board driven through Board::make_move, as Eval::alpha_beta *)
(* and the tests drive it                                                  *)

mover(b) == IF b.to_move THEN "White" ELSE "Black"

RECURSIVE concat_piece_moves(_, _, _, _, _)
concat_piece_moves(b, color, piece, sqs, i) ==
    IF i > Len(sqs) THEN <<>>
    ELSE (CASE piece = "Knight" -> knight_moves(b, sqs[i], color)
            [] piece = "King"   -> king_moves(b, sqs[i], color)
            [] piece = "Rook"   -> rook_moves(b, sqs[i], color)
            [] piece = "Bishop" -> bishop_moves(b, sqs[i], color)
            [] piece = "Queen"  -> queen_moves(b, sqs[i], color))
         \o concat_piece_moves(b, color, piece, sqs, i + 1)

\* the moves the officers' generators give for a colour
piece_moves(b, color) ==
    UNION {Range(concat_piece_moves(b, color, p, get_piece_squares(b, color, p), 1)) :
             p \in {"Knight", "King", "Rook", "Bishop", "Queen"}}

GameIdle ==
    /\ board = Board_new /\ current_player = "White" /\ move_history = <<>>
    /\ last_result = "none"

InitBoard ==
    /\ \E fen \in BoardFens : pos = Board_from_fen(fen)
    /\ prev = Board_new
    /\ last_move = NoMove
    /\ plies = 0
    /\ call = NoCall
    /\ GameIdle

Apply(mv) ==
    /\ plies < MaxPlies
    /\ pos' = make_move(pos, mv)
    /\ prev' = pos
    /\ last_move' = mv
    /\ plies' = plies + 1
    /\ UNCHANGED <<board, current_player, move_history, last_result, call>>

\* new_board.make_move(&mv) for a move of generate_all_moves
ApplyGenerated == \E mv \in Range(generate_all_moves(pos, mover(pos))) : Apply(mv)

\* board.make_move(&mv) for a move of one of the other generators
ApplyPieceMove == \E mv \in piece_moves(pos, mover(pos)) : Apply(mv)

NextBoard == ApplyGenerated \/ ApplyPieceMove

SpecBoard == InitBoard /\ [][NextBoard]_vars

-----------------------------------------------------------------------------
(* eval.rs : Eval                                                          *)

PAWN_VALUE == 100
KNIGHT_VALUE == 300
BISHOP_VALUE == 300
ROOK_VALUE == 500
QUEEN_VALUE == 900
I32_MIN == -2147483647 - 1
I32_MAX == 2147483647

max(a, b) == IF a >= b THEN a ELSE b
min(a, b) == IF a <= b THEN a ELSE b

\* u64::count_ones
count_ones(bb) == Cardinality(bb)

material(b, color) ==
    count_ones(get_bb(b, "Pawn", color)) * PAWN_VALUE
    + count_ones(get_bb(b, "Knight", color)) * KNIGHT_VALUE
    + count_ones(get_bb(b, "Bishop", color)) * BISHOP_VALUE
    + count_ones(get_bb(b, "Rook", color)) * ROOK_VALUE
    + count_ones(get_bb(b, "Queen", color)) * QUEEN_VALUE

material_balance(b) == material(b, "White") - material(b, "Black")

mobility(b, color) == Len(generate_all_moves(b, color)) * 10

mobility_balance(b) == mobility(b, "White") - mobility(b, "Black")

\* ranks_to_check that scans upwards for both colours
ranks_to_check_upwards(color, rank) == (rank + 1) .. 7

\* the ranks pawn_structure scans in front of a pawn
ranks_to_check(color, rank) ==
    IF color = "White" THEN (rank + 1) .. 7 ELSE 0 .. (rank - 1)

\* "Isolated pawn": is_isolated after the two tests
is_isolated(pawns, i) ==
    ~( \/ (i % 8 > 0 /\ (i - 1) \in pawns)
       \/ (i % 8 < 7 /\ (i + 1) \in pawns) )

\* "Doubled pawn" with the `break` left out: 20 for every pawn found
doubled_penalty_no_break(pawns, i) ==
    20 * Cardinality({r \in 0 .. ((i \div 8) - 1) : (r * 8 + (i % 8)) \in pawns})

\* "Doubled pawn": what the loop over the ranks 0..rank takes off the score
doubled_penalty(pawns, i) ==
    IF \E r \in 0 .. ((i \div 8) - 1) : (r * 8 + (i % 8)) \in pawns THEN 20 ELSE 0

\* the body of pawn_structure's loop for the pawn on square i
pawn_score(pawns, enemy_pawns, color, i) ==
    LET file == i % 8
        rank == i \div 8
        is_passed == \A r \in ranks_to_check(color, rank) :
                       /\ (r * 8 + file) \notin enemy_pawns
                       /\ ~(file > 0 /\ (r * 8 + file - 1) \in enemy_pawns)
                       /\ ~(file < 7 /\ (r * 8 + file + 1) \in enemy_pawns)
    IN  (IF is_isolated(pawns, i) THEN -30 ELSE 0)
        - doubled_penalty(pawns, i)
        + (IF is_passed THEN 30 ELSE 0)

RECURSIVE sum_pawn_scores(_, _, _, _, _)
sum_pawn_scores(pawns, enemy_pawns, color, sqs, i) ==
    IF i > Len(sqs) THEN 0
    ELSE pawn_score(pawns, enemy_pawns, color, sqs[i])
         + sum_pawn_scores(pawns, enemy_pawns, color, sqs, i + 1)

pawn_structure(b, color) ==
    sum_pawn_scores(get_bb(b, "Pawn", color), get_bb(b, "Pawn", opponent(color)),
                    color, squares_of(get_bb(b, "Pawn", color)), 1)

pawn_structure_balance(b) == pawn_structure(b, "White") - pawn_structure(b, "Black")

evaluate(b) == material_balance(b) + mobility_balance(b) + pawn_structure_balance(b)

\* the colour alpha_beta moves for
search_color(maximizing_player) == IF maximizing_player THEN "White" ELSE "Black"

\* the moves alpha_beta loops over at a node
search_moves(b, maximizing_player) ==
    generate_all_moves(b, search_color(maximizing_player))

\* a cut-off test that is taken whenever the window is still open
cutoff_open_window(alpha, beta) == alpha <= beta

\* `if beta <= alpha { break; }`
cutoff(alpha, beta) == beta <= alpha

RECURSIVE alpha_beta(_, _, _, _, _)
RECURSIVE max_loop(_, _, _, _, _, _, _)
RECURSIVE min_loop(_, _, _, _, _, _, _)

\* one turn of the maximizing loop, `eval` being the child's score
max_turn(b, depth, moves, i, max_eval, alpha, beta, eval) ==
    IF cutoff(max(alpha, eval), beta) THEN max(max_eval, eval)
    ELSE max_loop(b, depth, moves, i + 1, max(max_eval, eval), max(alpha, eval), beta)

max_loop(b, depth, moves, i, max_eval, alpha, beta) ==
    IF i > Len(moves) THEN max_eval
    ELSE max_turn(b, depth, moves, i, max_eval, alpha, beta,
                  alpha_beta(make_move(b, moves[i]), depth - 1, alpha, beta, FALSE))

\* one turn of the minimizing loop
min_turn(b, depth, moves, i, min_eval, alpha, beta, eval) ==
    IF cutoff(alpha, min(beta, eval)) THEN min(min_eval, eval)
    ELSE min_loop(b, depth, moves, i + 1, min(min_eval, eval), alpha, min(beta, eval))

min_loop(b, depth, moves, i, min_eval, alpha, beta) ==
    IF i > Len(moves) THEN min_eval
    ELSE min_turn(b, depth, moves, i, min_eval, alpha, beta,
                  alpha_beta(make_move(b, moves[i]), depth - 1, alpha, beta, TRUE))

alpha_beta(b, depth, alpha, beta, maximizing_player) ==
    IF depth = 0 THEN evaluate(b)
    ELSE IF maximizing_player
    THEN max_loop(b, depth, search_moves(b, TRUE), 1, I32_MIN, alpha, beta)
    ELSE min_loop(b, depth, search_moves(b, FALSE), 1, I32_MAX, alpha, beta)

-----------------------------------------------------------------------------
(* SpecCalls: the pure functions of eval.rs and the attack oracle, called  *)
(* on a Board loaded from a FEN                                            *)

\* 4k3/pp3p2/8/2P5/P1P5/8/P4PP1/4K3 w - - 0 1 : doubled, isolated and passed pawns
PawnsFen ==
    Fen(<<"4","k","3","/","p","p","3","p","2","/","8","/","2","P","5","/",
          "P","1","P","5","/","8","/","P","4","P","P","1","/","4","K","3">>,
        "w", Dash, Dash)

\* r3k2r/8/8/3q4/8/8/8/R3K2R w KQkq - 0 1   (tests.rs, test_is_square_attacked)
QueenFen ==
    Fen(<<"r","3","k","2","r","/","8","/","8","/","3","q","4","/","8","/","8","/",
          "8","/","R","3","K","2","R">>, "w", KQkq, Dash)

\* 4k3/8/2n5/5p2/3B4/2P5/8/4K3 w - - 0 1 : a knight, a bishop and pawns that
\* stand on the bishop's diagonals
MinorsFen ==
    Fen(<<"4","k","3","/","8","/","2","n","5","/","5","p","2","/","3","B","4","/",
          "2","P","5","/","8","/","4","K","3">>, "w", Dash, Dash)

\* 4k3/3p4/8/8/8/8/4P3/4K3 b - - 0 1 : one pawn each
PawnEachFen ==
    Fen(<<"4","k","3","/","3","p","4","/","8","/","8","/","8","/","8","/",
          "4","P","3","/","4","K","3">>, "b", Dash, Dash)

\* 4k3/p1p5/p7/1P6/8/1P3p2/5P2/4K3 b - - 0 1 : doubled pawns of both colours
DoubledFen ==
    Fen(<<"4","k","3","/","p","1","p","5","/","p","7","/","1","P","6","/","8","/",
          "1","P","3","p","2","/","5","P","2","/","4","K","3">>, "b", Dash, Dash)

\* 4k3/p7/p7/p7/P7/P7/P7/4K3 w - - 0 1 : three pawns of each colour on the a-file
TripledFen ==
    Fen(<<"4","k","3","/","p","7","/","p","7","/","p","7","/","P","7","/","P","7","/",
          "P","7","/","4","K","3">>, "w", Dash, Dash)

CallFens == BoardFens \cup {PawnsFen, QueenFen, MinorsFen, PawnEachFen, DoubledFen,
                            TripledFen}

InitCalls ==
    /\ \E fen \in CallFens : pos = Board_from_fen(fen)
    /\ prev = Board_new
    /\ last_move = NoMove
    /\ plies = 0
    /\ call = NoCall
    /\ GameIdle

\* Eval::alpha_beta(&board, depth, i32::MIN, i32::MAX, maximizing_player)
CallAlphaBeta ==
    /\ call = NoCall
    /\ \E depth \in 0 .. MaxDepth : \E maximizing_player \in BOOLEAN :
         call' = [op |-> "alpha_beta", depth |-> depth,
                  maximizing_player |-> maximizing_player,
                  result |-> alpha_beta(pos, depth, I32_MIN, I32_MAX, maximizing_player)]
    /\ UNCHANGED <<board, current_player, move_history, last_result,
                   pos, prev, last_move, plies>>

\* Moves::is_square_attacked(&board, square, by_color)
CallIsSquareAttacked ==
    /\ call = NoCall
    /\ \E square \in Squares : \E by_color \in Color :
         call' = [op |-> "is_square_attacked", square |-> square, by_color |-> by_color,
                  result |-> is_square_attacked(pos, square, by_color)]
    /\ UNCHANGED <<board, current_player, move_history, last_result,
                   pos, prev, last_move, plies>>

\* Eval::evaluate(&board), with its three terms
CallEvaluate ==
    /\ call = NoCall
    /\ call' = [op |-> "evaluate", material |-> material_balance(pos),
                mobility |-> mobility_balance(pos),
                pawn_structure |-> pawn_structure_balance(pos),
                result |-> evaluate(pos)]
    /\ UNCHANGED <<board, current_player, move_history, last_result,
                   pos, prev, last_move, plies>>

NextCalls == CallAlphaBeta \/ CallIsSquareAttacked \/ CallEvaluate

SpecCalls == InitCalls /\ [][NextCalls]_vars

-----------------------------------------------------------------------------
(* SpecText: pos_to_u8 and u8_to_pos called on short strings and on the    *)
(* squares                                                                 *)

MaxText == 3         \* longest string handed to pos_to_u8

TextChars == {"a", "h", "i", "A", "0", "1", "8", "9", " "}

Texts == UNION {[1 .. n -> TextChars] : n \in 0 .. MaxText}

InitText == BoardIdle /\ GameIdle /\ call = NoCall

\* pos_to_u8(text)
CallPosToU8 ==
    /\ call = NoCall
    /\ \E text \in Texts : \E build \in {"debug", "release"} :
         call' = [op |-> "pos_to_u8", text |-> text, build |-> build,
                  result |-> pos_to_u8_built(build, text)]
    /\ UNCHANGED <<board, current_player, move_history, last_result,
                   pos, prev, last_move, plies>>

\* pos_to_u8(&u8_to_pos(square))
CallU8ToPos ==
    /\ call = NoCall
    /\ \E square \in Squares : \E build \in {"debug", "release"} :
         call' = [op |-> "u8_to_pos", square |-> square, text |-> u8_to_pos(square),
                  build |-> build,
                  result |-> pos_to_u8_built(build, u8_to_pos(square))]
    /\ UNCHANGED <<board, current_player, move_history, last_result,
                   pos, prev, last_move, plies>>

NextText == CallPosToU8 \/ CallU8ToPos

SpecText == InitText /\ [][NextText]_vars

-----------------------------------------------------------------------------
(* SpecSearch: Eval::alpha_beta run step by step.  `call.stack` is the     *)
(* chain of its active invocations, the last one running; each holds the   *)
(* board it was given and its locals.                                      *)

\* the locals of one invocation on entry
frame(b, depth, alpha, beta, maximizing_player) ==
    [board |-> b, depth |-> depth, alpha |-> alpha, beta |-> beta,
     maximizing_player |-> maximizing_player,
     moves |-> IF depth = 0 THEN <<>> ELSE search_moves(b, maximizing_player),
     i |-> 1,
     best |-> IF maximizing_player THEN I32_MIN ELSE I32_MAX]

\* make_move applied to the caller's board itself, which the child then shares
expand_in_place(b, mv) == [parent |-> make_move(b, mv), child |-> make_move(b, mv)]

\* let mut new_board = board.clone(); new_board.make_move(&mv);
\* `parent` is the caller's board afterwards, `child` the board handed down
expand(b, mv) == [parent |-> b, child |-> make_move(b, mv)]

\* the caller's frame after a recursive call returned eval
resume(f, eval) ==
    IF f.maximizing_player
    THEN [f EXCEPT !.best = max(f.best, eval), !.alpha = max(f.alpha, eval),
                   !.i = IF cutoff(max(f.alpha, eval), f.beta)
                         THEN Len(f.moves) + 1 ELSE f.i + 1]
    ELSE [f EXCEPT !.best = min(f.best, eval), !.beta = min(f.beta, eval),
                   !.i = IF cutoff(f.alpha, min(f.beta, eval))
                         THEN Len(f.moves) + 1 ELSE f.i + 1]

top == call.stack[Len(call.stack)]

\* Eval::alpha_beta(&board, depth, i32::MIN, i32::MAX, maximizing_player) is entered
SearchStart ==
    /\ call = NoCall
    /\ \E depth \in 0 .. MaxDepth : \E maximizing_player \in BOOLEAN :
         call' = [op |-> "search", depth |-> depth,
                  maximizing_player |-> maximizing_player,
                  stack |-> <<frame(pos, depth, I32_MIN, I32_MAX, maximizing_player)>>,
                  result |-> None]
    /\ UNCHANGED <<board, current_player, move_history, last_result,
                   pos, prev, last_move, plies>>

\* the running invocation clones its board, applies its next move and recurses
SearchExpand ==
    /\ call.op = "search" /\ call.stack # <<>>
    /\ top.depth > 0 /\ top.i <= Len(top.moves)
    /\ \E e \in {expand(top.board, top.moves[top.i])} :
         call' = [call EXCEPT
                    !.stack = Append([@ EXCEPT ![Len(@)].board = e.parent],
                                     frame(e.child, top.depth - 1, top.alpha, top.beta,
                                           ~top.maximizing_player))]
    /\ UNCHANGED <<board, current_player, move_history, last_result,
                   pos, prev, last_move, plies>>

\* the running invocation returns: evaluate(board) at depth 0, else its best
SearchReturn ==
    /\ call.op = "search" /\ call.stack # <<>>
    /\ top.depth = 0 \/ top.i > Len(top.moves)
    /\ \E eval \in {IF top.depth = 0 THEN evaluate(top.board) ELSE top.best} :
         call' = IF Len(call.stack) = 1
                 THEN [call EXCEPT !.stack = <<>>, !.result = eval]
                 ELSE [call EXCEPT
                         !.stack = [k \in 1 .. Len(@) - 1 |->
                                      IF k = Len(@) - 1 THEN resume(@[k], eval) ELSE @[k]]]
    /\ UNCHANGED <<board, current_player, move_history, last_result,
                   pos, prev, last_move, plies>>

NextSearch == SearchStart \/ SearchExpand \/ SearchReturn

SpecSearch == InitCalls /\ [][NextSearch]_vars

-----------------------------------------------------------------------------
(* SpecPieces: the per-piece generators of moves.rs called on a Board that *)
(* holds the piece and one pawn of either colour                           *)

\* the en-passant targets a FEN can give that a pawn on `square` may look at
en_passant_choices(piece, color, square) ==
    IF piece = "Pawn"
    THEN {None} \cup ({square + pawn_dirs(color)[4], square + pawn_dirs(color)[5]}
                      \cap Squares)
    ELSE {None}

\* board.set_piece(piece, color, square); board.set_piece(Pawn, other_color, other)
PieceBoard(piece, color, square, other_color, other, en_passant) ==
    [set_piece(set_piece(Board_new, piece, color, square), "Pawn", other_color, other)
       EXCEPT !.to_move = (color = "White"), !.en_passant = en_passant,
              !.castling_rights = 0]

InitPieces ==
    /\ \E piece \in {"Pawn", "Rook", "Bishop", "Queen"} : \E color, other_color \in Color :
       \E square \in Squares : \E other \in Squares \ {square} :
       \E en_passant \in en_passant_choices(piece, color, square) :
         pos = PieceBoard(piece, color, square, other_color, other, en_passant)
    /\ prev = Board_new
    /\ last_move = NoMove
    /\ plies = 0
    /\ call = NoCall
    /\ GameIdle

\* Moves::pawn_moves(&board, square, color) for a square that holds such a piece
CallPawnMoves ==
    /\ call = NoCall
    /\ \E color \in Color : \E square \in get_bb(pos, "Pawn", color) :
         call' = [op |-> "pawn_moves", square |-> square, color |-> color,
                  probes |-> pawn_probes(pos, square, color),
                  result |-> pawn_moves(pos, square, color)]
    /\ UNCHANGED <<board, current_player, move_history, last_result,
                   pos, prev, last_move, plies>>

\* Moves::rook_moves(&board, square, color) for a square that holds such a piece
CallRookMoves ==
    /\ call = NoCall
    /\ \E color \in Color : \E square \in get_bb(pos, "Rook", color) :
         call' = [op |-> "rook_moves", square |-> square, color |-> color,
                  probes |-> {},
                  result |-> rook_moves(pos, square, color)]
    /\ UNCHANGED <<board, current_player, move_history, last_result,
                   pos, prev, last_move, plies>>

\* Moves::bishop_moves(&board, square, color) for a square that holds such a piece
CallBishopMoves ==
    /\ call = NoCall
    /\ \E color \in Color : \E square \in get_bb(pos, "Bishop", color) :
         call' = [op |-> "bishop_moves", square |-> square, color |-> color,
                  probes |-> {},
                  result |-> bishop_moves(pos, square, color)]
    /\ UNCHANGED <<board, current_player, move_history, last_result,
                   pos, prev, last_move, plies>>

\* Moves::queen_moves(&board, square, color) for a square that holds such a piece
CallQueenMoves ==
    /\ call = NoCall
    /\ \E color \in Color : \E square \in get_bb(pos, "Queen", color) :
         call' = [op |-> "queen_moves", square |-> square, color |-> color,
                  probes |-> {},
                  result |-> queen_moves(pos, square, color)]
    /\ UNCHANGED <<board, current_player, move_history, last_result,
                   pos, prev, last_move, plies>>

NextPieces == CallPawnMoves \/ CallRookMoves \/ CallBishopMoves \/ CallQueenMoves

SpecPieces == InitPieces /\ [][NextPieces]_vars

-----------------------------------------------------------------------------
(* Properties                                                              *)

\* a copy of b with mv applied leaves no king of `color` on a square the
\* other colour attacks
king_safe_after(b, mv, color) ==
    \A copy \in {make_move(b, mv)} :
      \A k \in get_bb(copy, "King", color) :
        ~is_square_attacked(copy, k, opponent(color))

C2_BitboardsPairwiseDisjoint ==
    \A f1 \in BBFields : \A f2 \in BBFields :
      f1 # f2 => pos[f1] \cap pos[f2] = {}

\* C3: ChessGame::make_move on a move that is not in
\* generate_legal_moves(board, current_player) gives false and the game as
\* it was; on a move that is, it gives true, the history grown by that one
\* move, the board with the move applied and the other player to move.
C3_MakeMoveAcceptsExactlyLegalMoves ==
    \A legal_moves \in {generate_legal_moves(board, current_player)} :
      \A mv \in Attempts(game) :
        \A r \in {checked_make_move(game, mv, legal_moves)} :
          IF mv \in Range(legal_moves)
          THEN /\ r.result = TRUE
               /\ r.game.move_history = Append(move_history, to_algebraic(mv))
               /\ r.game.board = make_move(board, mv)
               /\ r.game.current_player = opponent(current_player)
          ELSE /\ r.result = FALSE
               /\ r.game = game

\* a move has been accepted, and a later one has been rejected
C3_Witness ==
    /\ Len(move_history) > 0
    /\ last_result = "false"
    /\ \E mv \in Attempts(game) :
         mv \in Range(generate_legal_moves(board, current_player))

\* the squares of a castle of the king from `from` to `to`
castle_rook_square(from, to) == IF to > from THEN (from \div 8) * 8 + 7 ELSE (from \div 8) * 8
castle_king_path(from, to) == IF to > from THEN from .. to ELSE to .. from
castle_between(from, to) ==
    IF to > from THEN (from + 1) .. (castle_rook_square(from, to) - 1)
    ELSE (castle_rook_square(from, to) + 1) .. (from - 1)

\* none of the three conditions of castling fails
castle_allowed(b, color, mv) ==
    /\ bit_and(b.castling_rights, rook_right(color, castle_rook_square(mv.from, mv.to))) # 0
    /\ \A s \in castle_between(mv.from, mv.to) : is_none(get_piece_at(b, s))
    /\ \A s \in castle_king_path(mv.from, mv.to) :
         ~is_square_attacked(b, s, opponent(color))

\* the four castles of parse_move_input
CastleMoves ==
    {Moves_new(4, 6, MT("Castle")), Moves_new(4, 2, MT("Castle")),
     Moves_new(60, 62, MT("Castle")), Moves_new(60, 58, MT("Castle"))}

\* C4: generate_all_moves gives no Castle move whose castling right is
\* clear, whose squares between king and rook are not all empty, or whose
\* king start, crossed or destination square is attacked by the opponent.
C4_NoCastleWhenForbidden ==
    \A color \in Color :
      \A mv \in Range(generate_all_moves(pos, color)) :
        mv.move_type.kind = "Castle" => castle_allowed(pos, color, mv)

\* a king on its home square with forbidden castles while the generator
\* gives moves
C4_Witness ==
    \E color \in Color :
      /\ generate_all_moves(pos, color) # <<>>
      /\ \E mv \in CastleMoves :
           /\ mv.from \in get_bb(pos, "King", color)
           /\ ~castle_allowed(pos, color, mv)

\* C5: pawn_moves gives an EnPassant move from a square only when the
\* en-passant target is set, is the move's destination, is the forward
\* diagonal of the square on a neighbouring file, and the square beside the
\* pawn on that file holds a pawn of the other colour.
C5_EnPassantOnlyWhenCapturable ==
    \A color \in Color :
      \A square \in pos.white_pawns \cup pos.black_pawns :
        \A mv \in Range(pawn_moves(pos, square, color)) :
          mv.move_type.kind = "EnPassant" =>
            /\ pos.en_passant # None
            /\ mv.from = square
            /\ mv.to = pos.en_passant
            /\ \E side \in {-1, 1} :
                 /\ (square % 8) + side \in 0 .. 7
                 /\ mv.to = square + side + (IF color = "White" THEN 8 ELSE -8)
                 /\ get_piece_at(pos, square + side) = <<"Pawn", opponent(color)>>

\* pawn_moves gives an EnPassant move after a double push
C5_Witness ==
    /\ last_move.move_type.kind = "Double"
    /\ \E square \in get_bb(pos, "Pawn", mover(pos)) :
         \E mv \in Range(pawn_moves(pos, square, mover(pos))) :
           mv.move_type.kind = "EnPassant"

\* the square of the pawn an en-passant capture from `from` to `to` takes
en_passant_victim_square(from, to) == (from \div 8) * 8 + (to % 8)

\* C6: once an EnPassant move from f to t is applied, the capturing pawn is
\* on t and no longer on f, the other colour's pawn is gone from the square
\* on f's rank and t's file, and every other square, t included, holds in
\* every bitboard what it held before.
C6_EnPassantRemovesThePassedPawn ==
    last_move.move_type.kind = "EnPassant" =>
      \A color \in {mover(prev)} :
        \A taken \in {en_passant_victim_square(last_move.from, last_move.to)} :
          /\ last_move.from \in get_bb(prev, "Pawn", color)
          /\ taken \in get_bb(prev, "Pawn", opponent(color))
          /\ taken # last_move.to
          /\ get_bb(pos, "Pawn", color) =
               (get_bb(prev, "Pawn", color) \ {last_move.from}) \cup {last_move.to}
          /\ get_bb(pos, "Pawn", opponent(color)) =
               get_bb(prev, "Pawn", opponent(color)) \ {taken}
          /\ \A f \in BBFields \ {bb_field("Pawn", "White"), bb_field("Pawn", "Black")} :
               pos[f] = prev[f]

\* an EnPassant move has been applied
C6_Witness ==
    /\ plies > 0
    /\ last_move.move_type.kind = "EnPassant"
    /\ last_move.to \in get_bb(pos, "Pawn", mover(prev))

\* the last move took a pawn two ranks forward
two_square_pawn_advance ==
    /\ plies > 0
    /\ last_move.from \in prev.white_pawns \cup prev.black_pawns
    /\ last_move.to - last_move.from \in {16, -16}

\* C7: after a move the en-passant target is set exactly when the move was
\* a two-square pawn advance, and is then the square the pawn passed over;
\* after any other move it is None.
C7_EnPassantTargetFollowsDoublePush ==
    plies > 0 =>
      IF two_square_pawn_advance
      THEN pos.en_passant = (last_move.from + last_move.to) \div 2
      ELSE pos.en_passant = None

\* a double push set the target and the following move cleared it
C7_Witness ==
    /\ plies = 2
    /\ prev.en_passant # None
    /\ pos.en_passant = None

\* the four castling flags
CastlingFlags == {WHITE_KINGSIDE, WHITE_QUEENSIDE, BLACK_KINGSIDE, BLACK_QUEENSIDE}

\* C8: a castling flag that is clear before a move is clear after it, so a
\* flag never goes from clear back to set.
C8_CastlingRightsNeverReturn ==
    plies > 0 =>
      \A flag \in CastlingFlags :
        bit_and(prev.castling_rights, flag) = 0 => bit_and(pos.castling_rights, flag) = 0

\* a move was applied to a position that had lost some flags but not all
C8_Witness ==
    /\ plies = 2
    /\ prev.castling_rights \in 1 .. 14
    /\ pos.castling_rights \in 1 .. 14

\* C9: from a position loaded with castling field KQkq, after a White king
\* move the castling field of to_fen is "kq".
C9_WhiteKingMoveLeavesBlackRightsInFen ==
    ( /\ plies = 1
      /\ prev.castling_rights = parse_castling(KQkq, 1, 0)
      /\ last_move.from \in prev.white_king )
    => to_fen_castling(pos) = <<"k", "q">>

\* C10: for either colour, is_checkmate and is_stalemate never hold
\* together; is_checkmate comes with is_in_check and is_stalemate with its
\* negation.
C10_CheckmateAndStalemateExclusive ==
    \A color \in Color :
      \A cm \in {is_checkmate(pos, color)} :
        \A sm \in {is_stalemate(pos, color)} :
          /\ ~(cm /\ sm)
          /\ cm => is_in_check(pos, color)
          /\ sm => ~is_in_check(pos, color)

\* one colour is checkmated after a move, and a position is stalemate
C10_Witness ==
    /\ plies > 0
    /\ \E color \in Color : is_checkmate(pos, color)
    /\ \E color \in Color : is_stalemate(pos, color)

\* the unpruned search: the same moves in the same order, the same applier
\* and evaluator, every child visited
RECURSIVE minimax(_, _, _)
RECURSIVE minimax_fold(_, _, _, _, _, _)
minimax_fold(b, depth, maximizing_player, moves, i, best) ==
    IF i > Len(moves) THEN best
    ELSE minimax_fold(b, depth, maximizing_player, moves, i + 1,
           IF maximizing_player
           THEN max(best, minimax(make_move(b, moves[i]), depth - 1, FALSE))
           ELSE min(best, minimax(make_move(b, moves[i]), depth - 1, TRUE)))

minimax(b, depth, maximizing_player) ==
    IF depth = 0 THEN evaluate(b)
    ELSE minimax_fold(b, depth, maximizing_player, search_moves(b, maximizing_player), 1,
                      IF maximizing_player THEN I32_MIN ELSE I32_MAX)

\* C11: alpha_beta called with the window (i32::MIN, i32::MAX) returns the
\* score of the unpruned minimax over the same tree, for every position of
\* the test set, either side and every depth explored.
C11_AlphaBetaEqualsMinimax ==
    call.op = "alpha_beta" =>
      call.result = minimax(pos, call.depth, call.maximizing_player)

\* a depth-3 search from a node with several moves that ends on an
\* evaluated leaf
C11_Witness ==
    /\ call.op = "alpha_beta"
    /\ call.depth = 3
    /\ Len(search_moves(pos, call.maximizing_player)) > 1
    /\ call.result \notin {I32_MIN, I32_MAX}
    /\ call.result # evaluate(pos)

\* the moves of all six piece types of a colour that leave its king safe
safe_moves_of_all_pieces(b, color) ==
    {mv \in Range(generate_all_moves(b, color)) \cup piece_moves(b, color) :
       king_safe_after(b, mv, color)}

\* C12: at a node with depth > 0 alpha_beta loops over exactly the legal
\* moves of the colour maximizing_player stands for: moves of every piece
\* type, and none that leaves that colour's king attacked.
C12_SearchExpandsLegalMoves ==
    (call.op = "alpha_beta" /\ call.depth > 0) =>
      Range(search_moves(pos, call.maximizing_player))
        = safe_moves_of_all_pieces(pos, search_color(call.maximizing_player))

\* C13: alpha_beta called with depth > 0 on a position where the side to
\* search has no move returns a defined score, not the i32::MIN or i32::MAX
\* an empty fold starts from.
C13_NoMovesGivesDefinedScore ==
    ( /\ call.op = "alpha_beta"
      /\ call.depth > 0
      /\ search_moves(pos, call.maximizing_player) = <<>> )
    => call.result \notin {I32_MIN, I32_MAX}

\* the castles available to a colour: king and rook at home and none of
\* the three conditions failing
available_castles(b, color) ==
    {mv \in CastleMoves :
       /\ mv.from = (IF color = "White" THEN 4 ELSE 60)
       /\ mv.from \in get_bb(b, "King", color)
       /\ castle_rook_square(mv.from, mv.to) \in get_bb(b, "Rook", color)
       /\ castle_allowed(b, color, mv)}

\* C14: generate_all_moves gives, for a colour, exactly the moves of its
\* pawns, knights, bishops, rooks, queens and king together with its
\* available castles; with both White castles available these are 4->6
\* and 4->2.
C14_AllMovesOfAllPieces ==
    \A color \in Color :
      Range(generate_all_moves(pos, color))
        = UNION {Range(pawn_moves(pos, square, color)) :
                   square \in get_bb(pos, "Pawn", color)}
          \cup piece_moves(pos, color)
          \cup available_castles(pos, color)

\* C15: from the standard initial position generate_all_moves gives White
\* exactly 20 moves: 8 Normal pawn pushes, 8 Double pawn pushes and 4
\* knight moves.
C15_TwentyInitialMoves ==
    board = Board_from_fen(START_FEN) =>
      \A moves \in {generate_all_moves(board, "White")} :
        /\ Len(moves) = 20
        /\ Cardinality({i \in 1 .. Len(moves) :
                          /\ moves[i].from \in board.white_pawns
                          /\ moves[i].move_type.kind = "Normal"}) = 8
        /\ Cardinality({i \in 1 .. Len(moves) :
                          /\ moves[i].from \in board.white_pawns
                          /\ moves[i].move_type.kind = "Double"}) = 8
        /\ Cardinality({i \in 1 .. Len(moves) :
                          moves[i].from \in board.white_knights}) = 4

\* the entries of a move list that end on a square
moves_to(moves, to) == {i \in 1 .. Len(moves) : moves[i].to = to}

\* the entries are four moves of one kind, one for each promotion piece
four_promotions(moves, entries, kind) ==
    /\ Cardinality(entries) = 4
    /\ \A i \in entries : moves[i].move_type.kind = kind
    /\ {moves[i].move_type.piece : i \in entries} = {"Queen", "Rook", "Bishop", "Knight"}

\* a pawn of the colour one step from its promotion rank
promoting_pawns(b, color) ==
    {square \in get_bb(b, "Pawn", color) :
       square \div 8 = (IF color = "White" THEN 6 ELSE 1)}

\* the diagonal squares where a pawn on `square` has something to capture
capture_targets(b, square, color) ==
    {square + (IF color = "White" THEN 8 ELSE -8) + side : side \in
       {side \in {-1, 1} :
          /\ (square % 8) + side \in 0 .. 7
          /\ \E occ \in {get_piece_at(b, square + (IF color = "White" THEN 8 ELSE -8) + side)} :
               ~is_none(occ) /\ occ[2] # color}}

\* C16: a pawn one step from its promotion rank gets, when its forward
\* square is empty, exactly four moves to it, all Promotion, one for each
\* of Queen, Rook, Bishop and Knight, and no Normal move; and for each
\* diagonal capture it has, exactly four PromotionCapture moves.
C16_PromotionFanOut ==
    \A color \in Color :
      \A square \in promoting_pawns(pos, color) :
        \A moves \in {pawn_moves(pos, square, color)} :
          \A forward \in {square + (IF color = "White" THEN 8 ELSE -8)} :
            /\ is_none(get_piece_at(pos, forward)) =>
                 four_promotions(moves, moves_to(moves, forward), "Promotion")
            /\ \A target \in capture_targets(pos, square, color) :
                 four_promotions(moves, moves_to(moves, target), "PromotionCapture")

\* a promoting pawn with an empty forward square and a capture beside it
C16_Witness ==
    \E color \in Color :
      \E square \in promoting_pawns(pos, color) :
        /\ is_none(get_piece_at(pos, square + (IF color = "White" THEN 8 ELSE -8)))
        /\ capture_targets(pos, square, color) # {}
        /\ Len(pawn_moves(pos, square, color)) >= 8

\* the squares (rank + k*dr, file + k*df), k = 1, 2, ..., up to and
\* including the first occupied one
RECURSIVE ray_reach(_, _, _, _, _)
ray_reach(b, rank, file, dr, df) ==
    LET r == rank + dr
        f == file + df
    IN  IF r < 0 \/ r >= 8 \/ f < 0 \/ f >= 8 THEN {}
        ELSE IF ~is_none(get_piece_at(b, r * 8 + f)) THEN {r * 8 + f}
        ELSE {r * 8 + f} \cup ray_reach(b, r, f, dr, df)

\* the squares at the given (rank, file) offsets from a square, on the board
offset_reach(square, offsets) ==
    {(square \div 8 + offsets[i][1]) * 8 + ((square % 8) + offsets[i][2]) :
       i \in {i \in DOMAIN offsets :
                /\ square \div 8 + offsets[i][1] \in 0 .. 7
                /\ (square % 8) + offsets[i][2] \in 0 .. 7}}

\* the squares the piece standing on `square` attacks by its own movement
reach(b, square) ==
    LET occ == get_piece_at(b, square)
        rank == square \div 8
        file == square % 8
        rook == UNION {ray_reach(b, rank, file, rook_directions[i][1], rook_directions[i][2]) :
                         i \in 1 .. 4}
        bishop == UNION {ray_reach(b, rank, file, bishop_directions[i][1],
                                   bishop_directions[i][2]) : i \in 1 .. 4}
    IN  CASE occ[1] = "Pawn" ->
               offset_reach(square, IF occ[2] = "White" THEN <<<<1, -1>>, <<1, 1>>>>
                                    ELSE <<<<-1, -1>>, <<-1, 1>>>>)
          [] occ[1] = "Knight" -> offset_reach(square, knight_offsets)
          [] occ[1] = "King"   -> offset_reach(square, king_offsets)
          [] occ[1] = "Rook"   -> rook
          [] occ[1] = "Bishop" -> bishop
          [] occ[1] = "Queen"  -> rook \cup bishop
          [] OTHER -> {}

\* the squares of the pieces of a colour
squares_of_color(b, color) == {s \in Squares : get_piece_at(b, s)[2] = color}

\* C17: is_square_attacked(square, by_color) is true exactly when a piece
\* of by_color reaches the square by its own movement, a rook, bishop or
\* queen ray ending on the first occupied square of either colour.
C17_AttackedIffSomePieceReaches ==
    call.op = "is_square_attacked" =>
      (call.result <=> \E s \in squares_of_color(pos, call.by_color) :
                         call.square \in reach(pos, s))

\* the squares in line with the piece on `square`, blockers ignored
RECURSIVE ray_through(_, _, _, _)
ray_through(rank, file, dr, df) ==
    LET r == rank + dr
        f == file + df
    IN  IF r < 0 \/ r >= 8 \/ f < 0 \/ f >= 8 THEN {}
        ELSE {r * 8 + f} \cup ray_through(r, f, dr, df)

\* a square in line with a bishop of by_color behind a blocking piece is
\* reported not attacked, and some other square is reported attacked
C17_Witness ==
    /\ call.op = "is_square_attacked"
    /\ call.result = FALSE
    /\ \E s \in get_bb(pos, "Bishop", call.by_color) :
         \E i \in 1 .. 4 :
           call.square \in ray_through(s \div 8, s % 8, bishop_directions[i][1],
                                       bishop_directions[i][2])
    /\ \E t \in Squares : is_square_attacked(pos, t, call.by_color)

\* a list of moves between squares of the board
well_formed_moves(moves) ==
    \A i \in 1 .. Len(moves) :
      /\ moves[i].from \in Squares
      /\ moves[i].to \in Squares
      /\ moves[i].move_type.kind \in MoveKinds

\* the last applied move was a legal move of the side that was to move
last_move_was_legal ==
    /\ plies > 0
    /\ last_move \in Range(generate_legal_moves(prev, mover(prev)))

C19_NoKingIsReported ==
    \A color \in Color :
      get_bb(pos, "King", color) = {} =>
        /\ is_in_check(pos, color) \notin BOOLEAN
        /\ is_checkmate(pos, color) \notin BOOLEAN
        /\ is_stalemate(pos, color) \notin BOOLEAN
        /\ ~well_formed_moves(generate_legal_moves(pos, color))

\* the square on the same file with the ranks flipped
flip(square) == (7 - (square \div 8)) * 8 + (square % 8)

\* the position with the ranks flipped and the colours of the pieces, of
\* the side to move and of the en-passant target swapped
mirror(b) ==
    [b EXCEPT
       !.white_pawns = {flip(s) : s \in b.black_pawns},
       !.white_knights = {flip(s) : s \in b.black_knights},
       !.white_bishops = {flip(s) : s \in b.black_bishops},
       !.white_rooks = {flip(s) : s \in b.black_rooks},
       !.white_queens = {flip(s) : s \in b.black_queens},
       !.white_king = {flip(s) : s \in b.black_king},
       !.black_pawns = {flip(s) : s \in b.white_pawns},
       !.black_knights = {flip(s) : s \in b.white_knights},
       !.black_bishops = {flip(s) : s \in b.white_bishops},
       !.black_rooks = {flip(s) : s \in b.white_rooks},
       !.black_queens = {flip(s) : s \in b.white_queens},
       !.black_king = {flip(s) : s \in b.white_king},
       !.to_move = ~b.to_move,
       !.en_passant = IF b.en_passant = None THEN None ELSE flip(b.en_passant)]

\* C20: evaluate of the mirrored position is minus evaluate of the
\* position, and so is each of its three terms: material, mobility and
\* pawn structure.
C20_EvaluateAntisymmetric ==
    call.op = "evaluate" =>
      \A m \in {mirror(pos)} :
        /\ material_balance(m) = -call.material
        /\ mobility_balance(m) = -call.mobility
        /\ pawn_structure_balance(m) = -call.pawn_structure
        /\ evaluate(m) = -call.result

\* a position evaluated with all three terms different from zero
C20_Witness ==
    /\ call.op = "evaluate"
    /\ call.material # 0
    /\ call.mobility # 0
    /\ call.pawn_structure # 0
    /\ pos.black_pawns # {} /\ pos.white_pawns # {}

\* C21: pawn_moves hands Board::get_piece_at squares of 0..63 only and
\* emits moves to squares of 0..63 only, also for a pawn on its last rank.
C21_PawnMovesStayOnBoard ==
    call.op = "pawn_moves" =>
      /\ call.probes \subseteq Squares
      /\ \A mv \in Range(call.result) : mv.to \in Squares

\* C22: while alpha_beta runs, the board it was given stays as it was, and
\* the board of every recursive call is the caller's board with exactly the
\* caller's current move applied, whichever sibling is being explored.
C22_SearchWorksOnCopies ==
    call.op = "search" /\ call.stack # <<>> =>
      /\ call.stack[1].board = pos
      /\ \A k \in 2 .. Len(call.stack) :
           call.stack[k].board =
             make_move(call.stack[k - 1].board,
                       call.stack[k - 1].moves[call.stack[k - 1].i])

\* a second sibling is being explored two levels below the root
C22_Witness ==
    /\ call.op = "search" /\ Len(call.stack) = 3
    /\ call.stack[1].i > 1 /\ call.stack[2].i > 1
    /\ call.stack[3].board # pos

\* the step-by-step run returns what the recursive definition gives
SearchAgreesWithAlphaBeta ==
    call.op = "search" /\ call.stack = <<>> =>
      call.result = alpha_beta(pos, call.depth, I32_MIN, I32_MAX, call.maximizing_player)

\* C23: in every state of a ChessGame, current_player is White exactly
\* when board.to_move is true.
C23_CurrentPlayerIsSideToMove ==
    (current_player = "White") <=> board.to_move

\* C24: whenever a promotion is a legal move of the current player, typing
\* it into ChessGame::run in the form a7a8=Q plays that promotion.
C24_TypedPromotionIsPlayed ==
    \A mv \in Range(generate_legal_moves(board, current_player)) :
      is_promotion(mv) =>
        \A r \in {run_round(game, to_algebraic(mv))} :
          /\ r.played
          /\ r.game.board = make_move(board, mv)

\* the pawns of a colour on a file
pawns_on_file(b, color, file) == {s \in get_bb(b, "Pawn", color) : s % 8 = file}

\* C25: a pawn is charged the isolation penalty exactly when its colour has
\* no pawn on either adjacent file, on whatever rank.
C25_IsolatedIffNoPawnOnAdjacentFiles ==
    call.op = "evaluate" =>
      \A color \in Color : \A i \in get_bb(pos, "Pawn", color) :
        is_isolated(get_bb(pos, "Pawn", color), i)
          <=> /\ (i % 8 > 0 => pawns_on_file(pos, color, (i % 8) - 1) = {})
              /\ (i % 8 < 7 => pawns_on_file(pos, color, (i % 8) + 1) = {})

\* the doubled penalties charged to a set of pawns
RECURSIVE sum_doubled(_, _)
sum_doubled(pawns, on_file) ==
    IF on_file = {} THEN 0
    ELSE LET i == CHOOSE s \in on_file : TRUE
         IN  doubled_penalty(pawns, i) + sum_doubled(pawns, on_file \ {i})

\* C26 (as the code has it): for either colour a pawn is charged the doubled
\* penalty, once, exactly when another pawn of its colour stands on its file
\* on a lower rank index; a file holding n pawns of one colour is charged
\* 20 * (n - 1), for White and for Black alike.
C26_DoubledChargedOncePerLowerPawn ==
    call.op = "evaluate" =>
      \A color \in Color : \A file \in 0 .. 7 :
        \A on_file \in {pawns_on_file(pos, color, file)} :
          /\ \A i \in on_file :
               /\ doubled_penalty(get_bb(pos, "Pawn", color), i) \in {0, 20}
               /\ doubled_penalty(get_bb(pos, "Pawn", color), i) = 20
                    <=> \E j \in on_file : j < i
          /\ on_file # {} =>
               sum_doubled(get_bb(pos, "Pawn", color), on_file)
                 = 20 * (Cardinality(on_file) - 1)

\* a file with three pawns of one colour has been evaluated
C26_Witness ==
    /\ call.op = "evaluate"
    /\ \E color \in Color : \E file \in 0 .. 7 :
         Cardinality(pawns_on_file(pos, color, file)) = 3

\* C26 as stated: the penalty goes to the pawn that has another pawn of its
\* colour between it and its own back rank: on a lower rank for White, on a
\* higher rank for Black.
C26_DoubledTowardsOwnBackRank ==
    call.op = "evaluate" =>
      \A color \in Color : \A i \in get_bb(pos, "Pawn", color) :
        doubled_penalty(get_bb(pos, "Pawn", color), i) = 20
          <=> \E j \in pawns_on_file(pos, color, i % 8) :
                IF color = "White" THEN j < i ELSE j > i

\* the squares at distance 1 .. k - 1 from `square` towards (dr, df)
squares_before(square, dr, df, k) ==
    {((square \div 8) + j * dr) * 8 + (square % 8) + j * df : j \in 1 .. (k - 1)}

\* what a slider on `square` may do along the given directions: a Normal
\* move to every empty square with only empty squares before it, a Capture
\* of an enemy piece with only empty squares before it, nothing else
slider_moves(b, square, color, directions) ==
    {Moves_new(square, ((square \div 8) + k * d[1]) * 8 + (square % 8) + k * d[2],
               MT(IF is_none(get_piece_at(b, ((square \div 8) + k * d[1]) * 8
                                             + (square % 8) + k * d[2]))
                  THEN "Normal" ELSE "Capture")) :
       <<d, k>> \in
         {dk \in directions \X (1 .. 7) :
            /\ (square \div 8) + dk[2] * dk[1][1] \in 0 .. 7
            /\ (square % 8) + dk[2] * dk[1][2] \in 0 .. 7
            /\ \A t \in squares_before(square, dk[1][1], dk[1][2], dk[2]) :
                 is_none(get_piece_at(b, t))
            /\ \A occ \in {get_piece_at(b, ((square \div 8) + dk[2] * dk[1][1]) * 8
                                           + (square % 8) + dk[2] * dk[1][2])} :
                 is_none(occ) \/ occ[2] # color}}

Straight == {<<1, 0>>, <<0, 1>>, <<-1, 0>>, <<0, -1>>}
Diagonal == {<<1, 1>>, <<1, -1>>, <<-1, 1>>, <<-1, -1>>}

\* C27: rook_moves, bishop_moves and queen_moves give, each move once, the
\* Normal moves to the empty squares before the first occupied square of
\* each of their 4, 4 and 8 directions and one Capture of that square when
\* an enemy stands on it; queen_moves is rook_moves followed by bishop_moves.
C27_SlidersStopAtFirstPiece ==
    call.op \in {"rook_moves", "bishop_moves", "queen_moves"} =>
      /\ Len(call.result) = Cardinality(Range(call.result))
      /\ Range(call.result)
           = slider_moves(pos, call.square, call.color,
                          CASE call.op = "rook_moves" -> Straight
                            [] call.op = "bishop_moves" -> Diagonal
                            [] call.op = "queen_moves" -> Straight \cup Diagonal)
      /\ \A mv \in Range(call.result) : mv.to \in Squares /\ mv.from = call.square
      /\ call.op = "queen_moves" =>
           call.result = rook_moves(pos, call.square, call.color)
                         \o bishop_moves(pos, call.square, call.color)

\* a slider was called with an enemy pawn on one of its lines, not on the
\* edge of the board: it captures the pawn and goes no further
C27_Witness ==
    /\ call.op \in {"rook_moves", "bishop_moves", "queen_moves"}
    /\ \E mv \in Range(call.result) :
         /\ mv.move_type.kind = "Capture"
         /\ mv.to \div 8 \in 1 .. 6 /\ mv.to % 8 \in 1 .. 6
    /\ \E mv \in Range(call.result) : mv.move_type.kind = "Normal"

\* C28: pos_to_u8 returns, for every string, None or the square
\* (rank - 1) * 8 + file of a file a..h and a rank 1..8, never 64 or more
\* and never a panic; pos_to_u8 of u8_to_pos is the identity on 0..63.
C28_PosToU8IsTotalAndInRange ==
    /\ call.op = "pos_to_u8" =>
         /\ call.result # Panic
         /\ call.result # None =>
              /\ call.result \in Squares
              /\ Len(call.text) = 2
              /\ call.text[1] \in Range(Files)
              /\ call.text[2] \in {"1", "2", "3", "4", "5", "6", "7", "8"}
              /\ call.result = (digit_value(call.text[2]) - 1) * 8
                               + file_index(call.text[1])
    /\ call.op = "u8_to_pos" => call.result = call.square

\* the part of C28 that holds: u8_to_pos then pos_to_u8 is the identity
RoundTripOnSquares ==
    call.op = "u8_to_pos" => call.result = call.square

pawn_move_in_shape(square, color, mv) ==
    LET forward == IF color = "White" THEN 1 ELSE -1
    IN  /\ mv.from = square
        /\ mv.move_type.kind \in {"Capture", "PromotionCapture", "EnPassant"} =>
             /\ (mv.to % 8) - (square % 8) \in {-1, 1}
             /\ mv.to \div 8 = (square \div 8) + forward
        /\ mv.move_type.kind \in {"Normal", "Promotion"} =>
             mv.to = square + 8 * forward
        /\ mv.move_type.kind = "Double" => mv.to = square + 16 * forward
        /\ mv.move_type.kind \in {"Capture", "PromotionCapture", "EnPassant",
                                  "Normal", "Promotion", "Double"}

\* a pawn that stands on the last rank of its colour
on_last_rank(square, color) ==
    square \div 8 = (IF color = "White" THEN 7 ELSE 0)

=============================================================================
